---- MODULE Spec2Model ----
(***************************************************************************)
(* A model of the build orchestration engine of mayflower                  *)
(* (src/mayflower/build/common.py, src/mayflower/common.py).               *)
(*                                                                         *)
(*   Spec          Builder.build: the launch loop, the polling loop with   *)
(*                 its failure cascade, the final report, and one          *)
(*                 execution unit (Builder.run) per requested step.        *)
(*   FairSpec      Spec with the scheduling the operating system and the   *)
(*                 polling loop provide (weak fairness per unit).          *)
(*   SpecChecksum  verify_checksum as a function of a file's content and   *)
(*                 a checksum argument.                                    *)
(*   SpecDownload  Download.__call__: download_url's attempt loop and copy *)
(*                 loop, then the signature and the md5 validation.        *)
(*   SpecCall      Builder.__call__ with Builder.download_files.           *)
(*   SpecArch      Builder.__init__, Builder.set_arch and the Dirs of a    *)
(*                 unit.                                                   *)
(*   SpecArchive   create_archive over a tree of files.                    *)
(*   SpecFetch     where Download.fetch_file writes and where run reads.   *)
(*   SpecClean     Builder.clean over the working directories.             *)
(***************************************************************************)
EXTENDS Integers, Sequences, FiniteSets, TLC

VARIABLES
    \* ---- Builder.build ------------------------------------------------
    recipies,     \* self.recipies[name]["wait_on"]: a list of names. build()
                  \* pops the SAME list object into waits[name] (dict() is a
                  \* shallow copy), so waits[name] is recipies[name].
    registered,   \* history: the wait_on lists as Builder.add stored them
    steps,        \* argument steps of build(): the requested names, in order
    cleanup,      \* argument cleanup of build()
    spc,          \* position of build(): "launch", "poll", "returned", "exited"
    launched,     \* iterations of the launch loop done; the keys of events and
                  \* waits are steps[1..launched], in that (insertion) order
    events,       \* events[name].is_set()
    processes,    \* the keys of the dict processes, in insertion order
    pollq,        \* what is left of list(processes.values()) in this round
    fails,        \* the list fails
    state,        \* per step unit: "unstarted", "waiting", "running", "exited"
    exitcode,     \* proc.exitcode: None, or <<code>> with code 0, 1 or -15
                  \* (killed by SIGTERM)
    invoked,      \* history: whether run() has called build_func
    result,       \* history: how the build function completed
    setcount,     \* history: number of event.set() calls per step
    prefix,       \* whether the directory self.prefix exists
    cleaned,      \* history: whether build() has called self.cleanup()
    exit_status,  \* None while build() runs and after it returned; <<1>>
                  \* after sys.exit(1) or an uncaught exception
    logs,         \* the files of the log directory by name: None when the
                  \* file does not exist, else <<the entries written>>
    \* ---- verify_checksum ----------------------------------------------
    vc,
    \* ---- Download.__call__ --------------------------------------------
    dl,
    \* ---- Builder.__call__ and Builder.download_files --------------------
    call,
    \* ---- Builder.__init__, Builder.set_arch, Dirs -----------------------
    builder,
    \* ---- create_archive -------------------------------------------------
    ar,
    \* ---- Download.filepath, Download.fetch_file, the extraction in run ---
    fetch,
    \* ---- Builder.clean ---------------------------------------------------
    cln

buildvars == <<recipies, registered, steps, cleanup, spc, launched, events,
               processes, pollq, fails, state, exitcode, invoked, result,
               setcount, prefix, cleaned, exit_status, logs>>
vars == <<buildvars, vc, dl, call, builder, ar, fetch, cln>>

\* Python's None; a value v that may be None is held as <<v>>.
None == <<>>

\* The registry of the model: three recipes.
Names == {"a", "b", "c"}
NameOrder == <<"a", "b", "c">>

\* Bound: the longest wait_on list a recipe is registered with.
MaxWaitOn == 2

Range(s) == {s[i] : i \in 1..Len(s)}

RECURSIVE SeqsUpTo(_, _)
SeqsUpTo(S, n) ==
    IF n = 0 THEN {<<>>}
    ELSE LET shorter == SeqsUpTo(S, n - 1)
         IN  shorter \cup {Append(s, x) : s \in {t \in shorter : Len(t) = n - 1}, x \in S}

\* list.remove(x): removes the first occurrence of x.
RemoveFirst(s, x) ==
    LET i == CHOOSE k \in 1..Len(s) : s[k] = x /\ \A j \in 1..(k - 1) : s[j] # x
    IN  SubSeq(s, 1, i - 1) \o SubSeq(s, i + 1, Len(s))

\* Mutant: the dependencies outside the run are not removed.
FilterWaitOn_keep(wait_on, copy, requested) == wait_on

\* for _ in wait_on[:]: if _ not in steps: wait_on.remove(_)
\* copy is the snapshot wait_on[:] still to be visited.
RECURSIVE FilterWaitOn(_, _, _)
FilterWaitOn(wait_on, copy, requested) ==
    IF copy = <<>> THEN wait_on
    ELSE IF Head(copy) \notin requested
         THEN FilterWaitOn(RemoveFirst(wait_on, Head(copy)), Tail(copy), requested)
         ELSE FilterWaitOn(wait_on, Tail(copy), requested)

\* Builder.add: the wait_on list is stored as given (a list, so an entry may
\* repeat). A recipe naming itself is left out of the inputs.
WaitOnLists(n) == SeqsUpTo(Names \ {n}, MaxWaitOn)

\* The step lists a caller passes: every non-empty sub-list of the registry,
\* in registration order.
StepLists ==
    {SelectSeq(NameOrder, LAMBDA n : n \in S) : S \in (SUBSET Names) \ {{}}}

IdleVc == [pc |-> "idle", file |-> <<>>, checksum |-> None, ret |-> None]
IdleDl == [pc |-> "idle", signature |-> None, md5sum |-> None, n |-> 0,
           fin |-> None, block |-> <<>>, pos |-> 0, local |-> None,
           valid |-> TRUE, requests |-> 0, slept |-> <<>>, sig_ok |-> None,
           outcomes |-> <<>>, ret |-> None]

\* Builder.__call__ is not running. The fields of call:
\*   pc         position: "idle", "prereqs", "clean", "download",
\*              "df_launch", "df_poll", "build", "exited"
\*   clean, download   arguments of __call__
\*   toolchain  self.toolchain: None, or <<whether the directory exists>>
\*   downloads  the names whose recipe has a download
\*   i          iterations of download_files' launch loop done
\*   processes, pollq, fails   the locals of download_files, as in build()
\*   dstate     per download unit: "none", "running", "exited"
\*   outcome    history: how Download.__call__ ended in the unit
\*   dexit      proc.exitcode of the download unit
\*   did_clean  history: whether clean() was called
\*   no_cleanup history: args.no_cleanup of run_build
IdleCall == [pc |-> "idle", clean |-> FALSE, download |-> FALSE,
             toolchain |-> None, downloads |-> {}, i |-> 0,
             processes |-> <<>>, pollq |-> <<>>, fails |-> <<>>,
             dstate |-> [n \in Names |-> "none"],
             outcome |-> [n \in Names |-> None],
             dexit |-> [n \in Names |-> None],
             did_clean |-> FALSE, no_cleanup |-> FALSE]

\* Mutant: every step logs to the file of step a.
LogPath_shared(name) == "a.log"

\* os.path.join(dirs.logs, "{}.log".format(name)), inside the log directory
LogPath(name) == name \o ".log"

\* An empty log directory.
NoLogs == [f \in {n \o ".log" : n \in Names} |-> None]

\* create_archive is not running.
IdleAr == [pc |-> "idle"]
IdleFetch == [pc |-> "idle"]
IdleCln == [pc |-> "idle"]

\* No Builder is looked at.
IdleBuilder == [pc |-> "idle"]

Init ==
    /\ recipies \in {f \in [Names -> SeqsUpTo(Names, MaxWaitOn)] :
                        \A n \in Names : f[n] \in WaitOnLists(n)}
    /\ registered = recipies
    /\ steps \in StepLists
    /\ cleanup \in BOOLEAN
    /\ spc = "launch"
    /\ launched = 0
    /\ events = [n \in Names |-> FALSE]
    /\ processes = <<>>
    /\ pollq = <<>>
    /\ fails = <<>>
    /\ state = [n \in Names |-> "unstarted"]
    /\ exitcode = [n \in Names |-> None]
    /\ invoked = [n \in Names |-> FALSE]
    /\ result = [n \in Names |-> "none"]
    /\ setcount = [n \in Names |-> 0]
    /\ prefix \in BOOLEAN
    /\ cleaned = FALSE
    /\ exit_status = None
    /\ logs = NoLogs
    /\ vc = IdleVc
    /\ dl = IdleDl
    /\ call = IdleCall
    /\ builder = IdleBuilder
    /\ ar = IdleAr
    /\ fetch = IdleFetch
    /\ cln = IdleCln

Requested == Range(steps)
WaitsKeys == {steps[i] : i \in 1..launched}

\* ------------------------------------------------------------------------
\* Builder.build, the launch loop: one iteration of "for name in steps".
\* ------------------------------------------------------------------------
\* Mutant: the event of a step without dependencies is not set at launch.
ReadyAtLaunch_never(wait_on) == FALSE

\* waits[name] = wait_on; if not waits[name]: event.set()
ReadyAtLaunch(wait_on) == wait_on = <<>>

Launch ==
    /\ spc = "launch"
    /\ launched < Len(steps)
    /\ LET name == steps[launched + 1]
           wait_on == FilterWaitOn(recipies[name], recipies[name], Requested)
       IN  /\ recipies' = [recipies EXCEPT ![name] = wait_on]
           /\ events' = [events EXCEPT ![name] = ReadyAtLaunch(wait_on)]
           /\ setcount' = [setcount EXCEPT ![name] =
                                     IF ReadyAtLaunch(wait_on) THEN 1 ELSE 0]
           /\ processes' = Append(processes, name)
           /\ state' = [state EXCEPT ![name] = "waiting"]
    /\ launched' = launched + 1
    /\ spc' = IF launched + 1 = Len(steps) THEN "poll" ELSE "launch"
    /\ UNCHANGED <<registered, steps, cleanup, pollq, fails, exitcode, invoked,
                   result, prefix, cleaned, exit_status, logs, vc, dl, call, builder, ar, fetch, cln>>

\* ------------------------------------------------------------------------
\* Builder.run, one execution unit per step.
\* ------------------------------------------------------------------------
\* Mutant: a unit that has exited is started again.
StepStart_rerun(n) ==
    /\ state[n] \in {"waiting", "exited"}
    /\ events[n]
    /\ state' = [state EXCEPT ![n] = "running"]
    /\ invoked' = [invoked EXCEPT ![n] = TRUE]
    /\ prefix' = TRUE
    /\ logs' = [logs EXCEPT ![LogPath(n)] = <<<<"env">>>>]
    /\ UNCHANGED <<recipies, registered, steps, cleanup, spc, launched, events,
                   processes, pollq, fails, exitcode, result, setcount,
                   cleaned, exit_status, vc, dl, call, builder, ar, fetch, cln>>

\* The unit leaves "while event.is_set() is False", creates its directories
\* (dirs.prefix is self.prefix), opens its log file with mode "w", writes
\* the directories and the environment to it and invokes build_func.
StepStart(n) ==
    /\ state[n] = "waiting"
    /\ events[n]
    /\ state' = [state EXCEPT ![n] = "running"]
    /\ invoked' = [invoked EXCEPT ![n] = TRUE]
    /\ prefix' = TRUE
    /\ logs' = [logs EXCEPT ![LogPath(n)] = <<<<"env">>>>]
    /\ UNCHANGED <<recipies, registered, steps, cleanup, spc, launched, events,
                   processes, pollq, fails, exitcode, result, setcount,
                   cleaned, exit_status, vc, dl, call, builder, ar, fetch, cln>>

\* build_func returns r. run() returns it, and multiprocessing.Process drops
\* the return value of its target: the unit exits with status 0 whatever r is.
ReturnExitCode(r) == 0

StepReturn(n) ==
    /\ state[n] = "running"
    /\ \E r \in {0, 1} :
        /\ result' = [result EXCEPT ![n] = IF r = 0 THEN "returned_zero"
                                                     ELSE "returned_nonzero"]
        /\ exitcode' = [exitcode EXCEPT ![n] = <<ReturnExitCode(r)>>]
    /\ state' = [state EXCEPT ![n] = "exited"]
    /\ UNCHANGED <<recipies, registered, steps, cleanup, spc, launched, events,
                   processes, pollq, fails, invoked, setcount, prefix,
                   cleaned, exit_status, logs, vc, dl, call, builder, ar, fetch, cln>>

\* build_func raises an Exception: the trace is written to the unit's log,
\* then sys.exit(1).
RaiseExitCode == 1

StepRaise(n) ==
    /\ state[n] = "running"
    /\ result' = [result EXCEPT ![n] = "raised"]
    /\ exitcode' = [exitcode EXCEPT ![n] = <<RaiseExitCode>>]
    /\ state' = [state EXCEPT ![n] = "exited"]
    /\ logs' = [logs EXCEPT ![LogPath(n)] =
                              <<Append(logs[LogPath(n)][1], "trace")>>]
    /\ UNCHANGED <<recipies, registered, steps, cleanup, spc, launched, events,
                   processes, pollq, fails, invoked, setcount, prefix,
                   cleaned, exit_status, vc, dl, call, builder, ar, fetch, cln>>

\* ------------------------------------------------------------------------
\* Builder.build, the polling loop "while processes: for proc in list(...)".
\* ------------------------------------------------------------------------
\* A new round of the for loop: the snapshot list(processes.values()).
PollRound ==
    /\ spc = "poll"
    /\ pollq = <<>>
    /\ processes # <<>>
    /\ pollq' = processes
    /\ UNCHANGED <<recipies, registered, steps, cleanup, spc, launched, events,
                   processes, fails, state, exitcode, invoked, result, setcount,
                   prefix, cleaned, exit_status, logs, vc, dl, call, builder, ar, fetch, cln>>

\* proc.join(0.3) times out: proc.exitcode is None, continue.
PollAlive ==
    /\ spc = "poll"
    /\ pollq # <<>>
    /\ exitcode[Head(pollq)] = None
    /\ pollq' = Tail(pollq)
    /\ UNCHANGED <<recipies, registered, steps, cleanup, spc, launched, events,
                   processes, fails, state, exitcode, invoked, result, setcount,
                   prefix, cleaned, exit_status, logs, vc, dl, call, builder, ar, fetch, cln>>

\* Mutant: only the status of sys.exit(1) counts as a failure, a unit
\* killed by a signal does not.
IsFailure_positive(code) == code > 0

\* if proc.exitcode != 0: fails.append(proc.name); is_failure = True
IsFailure(code) == code # 0

\* if proc.name in waits[name]: ... waits[name].remove(proc.name)
WaitsAfter(name, p) ==
    IF name \in WaitsKeys /\ p \in Range(recipies[name])
    THEN RemoveFirst(recipies[name], p)
    ELSE recipies[name]

\* Mutant: the dependents of a failed unit are not terminated.
Terminates_never(name, p, is_failure, procs) == FALSE

\* if proc.name in waits[name]: if is_failure: if name in processes:
\*     processes[name].terminate()
\* procs is the dict processes after processes.pop(proc.name).
Terminates(name, p, is_failure, procs) ==
    /\ name \in WaitsKeys
    /\ p \in Range(recipies[name])
    /\ is_failure
    /\ name \in Range(procs)

\* Mutant: the event is set again on every visit once waits[name] is empty.
SetsEvent_again(name, p) ==
    /\ name \in WaitsKeys
    /\ (IF p \in Range(recipies[name])
        THEN Len(recipies[name]) = 1 ELSE recipies[name] = <<>>)

\* if not waits[name] and not events[name].is_set(): events[name].set()
SetsEvent(name, p) ==
    /\ name \in WaitsKeys
    /\ WaitsAfter(name, p) = <<>>
    /\ ~events[name]

\* The unit of an exited proc is handled: popped, classified, and every
\* entry of waits visited.
PollExited ==
    /\ spc = "poll"
    /\ pollq # <<>>
    /\ exitcode[Head(pollq)] # None
    /\ LET p == Head(pollq)
           procs == SelectSeq(processes, LAMBDA n : n # p)
           is_failure == IsFailure(exitcode[p][1])
           killed == {n \in Names : Terminates(n, p, is_failure, procs)
                                    /\ exitcode[n] = None}
       IN  /\ processes' = procs
           /\ fails' = IF is_failure THEN Append(fails, p) ELSE fails
           /\ recipies' = [n \in Names |-> WaitsAfter(n, p)]
           /\ events' = [n \in Names |-> events[n] \/ SetsEvent(n, p)]
           /\ setcount' = [n \in Names |->
                             IF SetsEvent(n, p) THEN setcount[n] + 1 ELSE setcount[n]]
           /\ state' = [n \in Names |-> IF n \in killed THEN "exited" ELSE state[n]]
           /\ exitcode' = [n \in Names |-> IF n \in killed THEN <<-15>> ELSE exitcode[n]]
    /\ pollq' = Tail(pollq)
    /\ UNCHANGED <<registered, steps, cleanup, spc, launched, invoked, result,
                   prefix, cleaned, exit_status, logs, vc, dl, call, builder, ar, fetch, cln>>

\* ------------------------------------------------------------------------
\* Builder.build after the polling loop, and Builder.cleanup.
\* ------------------------------------------------------------------------
\* Builder.cleanup: shutil.rmtree(self.prefix), which raises when the
\* directory is absent.
CleanupRaises(exists) == ~exists

\* Mutant: the polling loop is left with units still in processes.
PollLoopEnds_any(procs) == TRUE

\* "while processes" is false
PollLoopEnds(procs) == procs = <<>>

\* Mutant: only a failed run deletes the prefix.
DoesCleanup_onlyfail(failed, flag) == failed /\ flag

\* Mutant: a failed run always deletes the prefix.
DoesCleanup_onfail(failed, flag) == failed \/ flag

\* if fails: ...; if cleanup: self.cleanup(); sys.exit(1)
\* ...; if cleanup: self.cleanup()
DoesCleanup(failed, flag) == flag

Report ==
    /\ spc = "poll"
    /\ pollq = <<>>
    /\ PollLoopEnds(processes)
    /\ LET failed == fails # <<>>
           does == DoesCleanup(failed, cleanup)
           raised == does /\ CleanupRaises(prefix)
       IN  /\ prefix' = IF does THEN FALSE ELSE prefix
           /\ cleaned' = does
           /\ exit_status' = IF failed \/ raised THEN <<1>> ELSE None
           /\ spc' = IF failed \/ raised THEN "exited" ELSE "returned"
    /\ UNCHANGED <<recipies, registered, steps, cleanup, launched, events,
                   processes, pollq, fails, state, exitcode, invoked, result,
                   setcount, logs, vc, dl, call, builder, ar, fetch, cln>>

BuildNext ==
    \/ Launch
    \/ PollRound
    \/ PollAlive
    \/ PollExited
    \/ Report
    \/ \E n \in Names : StepStart(n)
    \/ \E n \in Names : StepReturn(n)
    \/ \E n \in Names : StepRaise(n)

\* ------------------------------------------------------------------------
\* Properties of Builder.build
\* ------------------------------------------------------------------------
\* The dependencies of n that are part of the run, as registered.
InsideDeps(n) == Range(registered[n]) \cap Requested
OutsideDeps(n) == Range(registered[n]) \ Requested

RECURSIVE DependentsFrom(_)
DependentsFrom(S) ==
    LET T == S \cup {b \in Requested : InsideDeps(b) \cap S # {}}
    IN  IF T = S THEN S ELSE DependentsFrom(T)

\* The requested steps that depend on a, directly or through requested steps.
Dependents(a) == {b \in Requested : InsideDeps(b) \cap DependentsFrom({a}) # {}}

Acyclic == \A n \in Requested : n \notin Dependents(n)

Succeeded(n) == exitcode[n] = <<0>>
Failed(n) == exitcode[n] # None /\ exitcode[n] # <<0>>
Cancelled(n) == exitcode[n] = <<-15>>
Finished == spc \in {"returned", "exited"}

\* C1: the build function of a requested step S has been invoked only if
\* the unit of every dependency D of S in the requested set has exited with
\* status 0; a unit's status never changes, so S is never invoked when D
\* failed or was cancelled.
C1_DependencyOrder ==
    \A S \in Requested : \A D \in InsideDeps(S) :
        invoked[S] => Succeeded(D)

C1_Witness ==
    \E S \in Requested : \E D \in InsideDeps(S) :
        /\ invoked[S]
        /\ Succeeded(D)
        /\ \E E \in Requested : Failed(E)

\* C2: once the unit of A has ended with a non-zero status, every requested
\* step B that depends on A (directly or through requested steps) has not
\* had its build function invoked and has no status 0, and when build() has
\* ended B was terminated and is in fails.
C2_FailureCascade ==
    \A A \in Requested : \A B \in Dependents(A) :
        Failed(A) =>
            /\ ~invoked[B]
            /\ ~Succeeded(B)
            /\ (Finished => Cancelled(B) /\ B \in Range(fails))

C2_Witness ==
    \E A \in Requested : \E B \in Dependents(A) :
        /\ result[A] = "raised"
        /\ B \notin InsideDeps(B)
        /\ A \notin InsideDeps(B)
        /\ Cancelled(B)
        /\ Finished

\* C3: an event that is set stays set, event.set() is called at most once
\* per step, and a build function has been invoked only with its event set.
C3_EventSetOnce ==
    /\ [][\A n \in Names : events[n] => events'[n]]_vars
    /\ [](\A n \in Names : /\ setcount[n] <= 1
                           /\ (events[n] <=> setcount[n] = 1)
                           /\ (invoked[n] => events[n]))

C3_Witness ==
    \E n \in Requested :
        /\ InsideDeps(n) # {}
        /\ events[n]
        /\ invoked[n]
        /\ \E m \in Requested \ {n} : ~events[m] /\ m \in WaitsKeys

\* C4: a requested step registered without dependencies has its event set
\* from the moment its unit is launched, and a step that depends on it has
\* its build function invoked only after that.
C4_ReadyAtStart ==
    \A n \in Requested :
        registered[n] = <<>> =>
            /\ (state[n] # "unstarted" => events[n])
            /\ \A m \in Requested :
                   (n \in InsideDeps(m) /\ invoked[m]) =>
                       (state[n] # "unstarted" /\ events[n])

C4_Witness ==
    \E n \in Requested : \E m \in Requested :
        /\ registered[n] = <<>>
        /\ n \in InsideDeps(m)
        /\ state[n] = "waiting"
        /\ events[n]
        /\ state[m] = "waiting"
        /\ ~events[m]

\* C5: from its launch on, a step waits on no name outside the requested
\* set: a step whose dependencies are all outside is ready at launch, and a
\* step that is not ready still waits on a requested dependency.
C5_OutsideIgnored ==
    \A n \in WaitsKeys :
        /\ Range(recipies[n]) \subseteq InsideDeps(n)
        /\ (InsideDeps(n) = {} => events[n])
        /\ (~events[n] => recipies[n] # <<>>)

C5_Witness ==
    \E n \in WaitsKeys : \E m \in WaitsKeys :
        /\ OutsideDeps(n) # {} /\ InsideDeps(n) = {} /\ events[n]
        /\ OutsideDeps(m) # {} /\ InsideDeps(m) # {} /\ invoked[m]

C17_RegistryUnchanged == recipies = registered

\* The life of a unit: not started, started and waiting for its event,
\* running build_func, exited.
StateRank(s) ==
    CASE s = "unstarted" -> 0
      [] s = "waiting" -> 1
      [] s = "running" -> 2
      [] s = "exited" -> 3

\* C19: a unit is started only for a step that had none, a unit never goes
\* back in its life (an exited unit stays exited), build_func is invoked
\* only by a unit that has not invoked it yet, and once the launch loop is
\* over every requested step has had its one unit started and no other
\* step has one.
C19_NoRetry ==
    /\ [][\A n \in Names :
            /\ StateRank(state'[n]) >= StateRank(state[n])
            /\ (state'[n] = "waiting" /\ state[n] # "waiting"
                    => state[n] = "unstarted")
            /\ (state'[n] = "running" /\ state[n] # "running"
                    => state[n] = "waiting" /\ ~invoked[n])
            /\ (invoked[n] => invoked'[n])
            /\ (exitcode[n] # None => exitcode'[n] = exitcode[n])]_vars
    /\ [](spc # "launch" =>
            \A n \in Names : (n \in Requested <=> state[n] # "unstarted"))

C19_Witness ==
    /\ Finished
    /\ \E A \in Requested : \E B \in Requested \ {A} :
           /\ result[A] = "raised"
           /\ invoked[A]
           /\ state[A] = "exited"
           /\ events[A]
           /\ Cancelled(B)
           /\ state[B] = "exited"
           /\ ~invoked[B]

\* C20: when build() has ended and the unit of every requested step ended
\* with status 0, no failure is recorded, build() returned, and the prefix
\* is deleted if and only if the cleanup flag is true.
C20_CleanupOnSuccess ==
    (Finished /\ \A n \in Requested : Succeeded(n)) =>
        /\ fails = <<>>
        /\ spc = "returned"
        /\ (cleaned <=> cleanup)
        /\ (prefix <=> ~cleanup)

C20_Witness ==
    /\ Finished
    /\ Cardinality(Requested) >= 2
    /\ \A n \in Requested : Succeeded(n) /\ invoked[n]
    /\ cleanup
    /\ cleaned
    /\ ~prefix

\* A unit of the run is live: started and not ended.
Live(n) == state[n] \in {"waiting", "running"}

\* C28: the step in which build() calls cleanup(), and any step that
\* deletes the prefix, is taken with no unit live, and no unit is live
\* once cleanup() was called.
C28_CleanupAfterUnits ==
    /\ [][((~cleaned /\ cleaned') \/ (prefix /\ ~prefix')) =>
              \A n \in Names : ~Live(n) /\ state'[n] = state[n]]_vars
    /\ [](cleaned => \A n \in Names : ~Live(n))

C28_Witness ==
    /\ cleaned
    /\ ~prefix
    /\ cleanup
    /\ \E n \in Requested : result[n] = "raised"
    /\ \E n \in Requested : Cancelled(n)
    /\ \E n \in Requested : Succeeded(n) /\ invoked[n]

\* C30: a log file changes only in a step of the unit it is named after;
\* the log directory holds at most the files '<step name>.log';
\* a unit that has not invoked its build function has written no log; and
\* the log of a step whose build function raised ends with the trace, its
\* unit having exited with status 1.
C30_OwnLogOnly ==
    /\ [][\A f \in DOMAIN logs :
            logs'[f] # logs[f] =>
                \E n \in Names : /\ f = n \o ".log"
                                 /\ state[n] \in {"waiting", "running"}
                                 /\ state'[n] # state[n]]_vars
    /\ [](/\ DOMAIN logs = {n \o ".log" : n \in Names}
          /\ \A n \in Names :
            /\ (~invoked[n] <=> logs[n \o ".log"] = None)
            /\ (result[n] = "raised" =>
                    /\ logs[n \o ".log"] = <<<<"env", "trace">>>>
                    /\ exitcode[n] = <<1>>)
            /\ (result[n] # "raised" /\ invoked[n] =>
                    logs[n \o ".log"] = <<<<"env">>>>))

C30_Witness ==
    /\ Finished
    /\ result["a"] = "raised"
    /\ logs["a.log"] = <<<<"env", "trace">>>>
    /\ result["b"] = "returned_zero"
    /\ logs["b.log"] = <<<<"env">>>>
    /\ "c" \in Requested
    /\ Cancelled("c")
    /\ logs["c.log"] = None

\* A unit the polling loop has popped.
Handled(n) == n \in WaitsKeys /\ n \notin Range(processes)

\* C8: a step whose build function returned a non-zero result or raised
\* is, once the polling loop has handled its unit, in fails, and none of its
\* dependents has been invoked.
C8_BothFailuresClassified ==
    \A n \in Requested :
        (Handled(n) /\ result[n] \in {"returned_nonzero", "raised"}) =>
            /\ n \in Range(fails)
            /\ \A m \in Dependents(n) : ~invoked[m]


Spec == Init /\ [][BuildNext]_vars

\* ------------------------------------------------------------------------
\* Scheduling: build() runs its loops without pausing for ever, the operating
\* system runs every unit that can take a step, and a build function that
\* was invoked completes (returns or raises).
\* ------------------------------------------------------------------------
SchedNext == Launch \/ PollRound \/ PollAlive \/ PollExited \/ Report

Fairness ==
    /\ WF_vars(SchedNext)
    /\ \A n \in Names : WF_vars(StepStart(n))
    /\ \A n \in Names : WF_vars(StepReturn(n) \/ StepRaise(n))

FairSpec == Init /\ [][BuildNext]_vars /\ Fairness

AllSucceeded ==
    /\ spc = "returned"
    /\ \A n \in Requested : invoked[n] /\ Succeeded(n)
    /\ fails = <<>>
    /\ exit_status = None
    /\ logs = NoLogs

C27_PollingTerminates ==
    Acyclic => <>(Finished /\ \A n \in Requested : state[n] = "exited")

\* C32: a launched step all of whose dependencies in the run have had
\* their unit succeed and be handled by the polling loop has its event
\* set, however often its wait_on list names a dependency.
C32_DuplicatesDoNotBlock ==
    \A n \in WaitsKeys :
        (\A D \in InsideDeps(n) : Succeeded(D) /\ Handled(D)) => events[n]

\* ------------------------------------------------------------------------
\* verify_checksum and Download.__call__
\* ------------------------------------------------------------------------
\* build() is not running.
BuildIdle ==
    /\ recipies = [n \in Names |-> <<>>]
    /\ registered = recipies
    /\ steps = <<>>
    /\ cleanup = FALSE
    /\ spc = "idle"
    /\ launched = 0
    /\ events = [n \in Names |-> FALSE]
    /\ processes = <<>>
    /\ pollq = <<>>
    /\ fails = <<>>
    /\ state = [n \in Names |-> "unstarted"]
    /\ exitcode = [n \in Names |-> None]
    /\ invoked = [n \in Names |-> FALSE]
    /\ result = [n \in Names |-> "none"]
    /\ setcount = [n \in Names |-> 0]
    /\ prefix = FALSE
    /\ cleaned = FALSE
    /\ exit_status = None
    /\ logs = NoLogs

\* Bound: the longest file content, in blocks of fin.read(10240).
MaxFileLen == 3

\* The blocks a file is made of.
Blocks == {0, 1}
Contents == SeqsUpTo(Blocks, MaxFileLen)

HexDigits == <<"0", "1", "2", "3", "4", "5", "6", "7",
               "8", "9", "a", "b", "c", "d", "e", "f">>

\* hashlib.md5(data): a digest computed from every block of the data, in
\* order. The model keeps 8 bits of it (the digest is not injective).
RECURSIVE Md5(_)
Md5(data) ==
    IF data = <<>> THEN 212
    ELSE (Md5(SubSeq(data, 1, Len(data) - 1)) * 33 + data[Len(data)] + 1) % 256

\* .hexdigest(): lower-case hexadecimal digits, high nibble first.
HexDigest(h) == <<HexDigits[(h \div 16) + 1], HexDigits[(h % 16) + 1]>>

\* str.upper() on a string of hexadecimal digits.
UpperChar(ch) ==
    CASE ch = "a" -> "A" [] ch = "b" -> "B" [] ch = "c" -> "C"
      [] ch = "d" -> "D" [] ch = "e" -> "E" [] ch = "f" -> "F"
      [] OTHER -> ch
Upper(s) == [i \in 1..Len(s) |-> UpperChar(s[i])]

\* The checksum arguments tried: None, the digest of every content in lower
\* and in upper case, the string "no" of the test and the empty string.
Checksums ==
    {None}
    \cup {<<HexDigest(Md5(c))>> : c \in Contents}
    \cup {<<Upper(HexDigest(Md5(c)))>> : c \in Contents}
    \cup {<<<<"n", "o">>>>, <<<<>>>>}

Return(v) == [kind |-> "return", value |-> v]
Raise(e) == [kind |-> "raise", value |-> e]

\* Mutant: a missing checksum counts as verified.
VerifyChecksum_none_ok(content, checksum) ==
    IF checksum = None THEN Return(TRUE)
    ELSE IF checksum[1] # HexDigest(Md5(content))
         THEN Raise("MayflowerException")
         ELSE Return(TRUE)

\* verify_checksum(file, checksum), content being what open(file).read() gives.
VerifyChecksum(content, checksum) ==
    IF checksum = None THEN Return(FALSE)
    ELSE IF checksum[1] # HexDigest(Md5(content))
         THEN Raise("MayflowerException")
         ELSE Return(TRUE)

InitChecksum ==
    /\ BuildIdle
    /\ dl = IdleDl
    /\ call = IdleCall
    /\ builder = IdleBuilder
    /\ ar = IdleAr
    /\ fetch = IdleFetch
    /\ cln = IdleCln
    /\ \E c \in Contents : \E k \in Checksums :
           vc = [pc |-> "call", file |-> c, checksum |-> k, ret |-> None]

VcCall ==
    /\ vc.pc = "call"
    /\ vc' = [vc EXCEPT !.pc = "done",
                        !.ret = <<VerifyChecksum(vc.file, vc.checksum)>>]
    /\ UNCHANGED <<buildvars, dl, call, builder, ar, fetch, cln>>

SpecChecksum == InitChecksum /\ [][VcCall]_vars

\* C9: verify_checksum returns False (and does not raise) when checksum is
\* None, returns True when checksum is the md5 hex digest of the file's
\* content, and raises MayflowerException for every other checksum.
C9_VerifyChecksum ==
    vc.pc = "done" =>
        /\ (vc.checksum = None => vc.ret[1] = Return(FALSE))
        /\ (vc.checksum = <<HexDigest(Md5(vc.file))>> => vc.ret[1] = Return(TRUE))
        /\ (vc.checksum \notin {None, <<HexDigest(Md5(vc.file))>>}
               => vc.ret[1] = Raise("MayflowerException"))

C9_Witness ==
    /\ vc.pc = "done"
    /\ vc.file # <<>>
    /\ vc.checksum = <<Upper(HexDigest(Md5(vc.file)))>>
    /\ vc.checksum # <<HexDigest(Md5(vc.file))>>
    /\ vc.ret[1].kind = "raise"

\* ------------------------------------------------------------------------
\* Download.__call__ with download_url (src/mayflower/common.py)
\* ------------------------------------------------------------------------
\* dl is the state of one call of a Download:
\*   signature, md5sum  the descriptor's fields (None or <<value>>)
\*   pc        "call", "loop", "copy", "validate_sig", "validate_md5",
\*             "returned", "raised"
\*   n         download_url's attempt counter
\*   fin       the response of the last urlopen that succeeded: <<body>>
\*   block     the block last read from fin; <<>> at the end of the body
\*   pos       blocks of fin read so far
\*   local     the file at filepath: None when absent, else <<content>>
\*   valid     the local valid of __call__
\*   requests, slept, sig_ok   history: urlopen calls, time.sleep arguments,
\*             what gpg --verify answered
\*   outcomes  history: how each urlopen call ended: "ok", "HTTPError",
\*             "URLError"
\*   ret       None, or <<what the call returned or raised>>
InitDownload ==
    /\ BuildIdle
    /\ vc = IdleVc
    /\ call = IdleCall
    /\ builder = IdleBuilder
    /\ ar = IdleAr
    /\ fetch = IdleFetch
    /\ cln = IdleCln
    /\ \E sig \in {None, <<"sig">>} : \E md5 \in Checksums :
       \E old \in {None, <<<<1, 1>>>>} :
           dl = [pc |-> "call", signature |-> sig, md5sum |-> md5, n |-> 0,
                 fin |-> None, block |-> <<>>, pos |-> 0, local |-> old,
                 valid |-> TRUE, requests |-> 0, slept |-> <<>>,
                 sig_ok |-> None, outcomes |-> <<>>, ret |-> None]

\* os.makedirs(self.filepath.parent); self.fetch_file() enters download_url:
\* local = ...; n = 0
DlCall ==
    /\ dl.pc = "call"
    /\ dl' = [dl EXCEPT !.pc = "loop", !.n = 0]
    /\ UNCHANGED <<buildvars, vc, call, builder, ar, fetch, cln>>

\* n == 3 in the except clause, and the bound of the loop
MaxAttempts == 3

\* Mutant: the loop goes on to a fourth iteration.
LoopGoesOn_four(n) == n < MaxAttempts + 1

\* while n < 3
LoopGoesOn(n) == n < MaxAttempts

\* Mutant: the same delay after every failed attempt.
Backoff_flat(n) == 1 * 10

\* time.sleep(n + 1 * 10)
Backoff(n) == n + 1 * 10

\* n += 1; fin = urllib.request.urlopen(url) succeeds. There is no break:
\* the loop goes on to its next iteration.
DlAttemptOk ==
    /\ dl.pc = "loop"
    /\ LoopGoesOn(dl.n)
    /\ \E body \in Contents :
           dl' = [dl EXCEPT !.n = dl.n + 1, !.requests = dl.requests + 1,
                            !.outcomes = Append(dl.outcomes, "ok"),
                            !.fin = <<body>>]
    /\ UNCHANGED <<buildvars, vc, call, builder, ar, fetch, cln>>

\* n += 1; urlopen raises urllib.error.HTTPError: re-raised when n == 3,
\* else printed and followed by a sleep.
DlAttemptHTTPError ==
    /\ dl.pc = "loop"
    /\ LoopGoesOn(dl.n)
    /\ LET n == dl.n + 1
       IN  IF n = MaxAttempts
           THEN dl' = [dl EXCEPT !.n = n, !.requests = dl.requests + 1,
                                 !.outcomes = Append(dl.outcomes, "HTTPError"),
                                 !.pc = "raised", !.ret = <<Raise("HTTPError")>>]
           ELSE dl' = [dl EXCEPT !.n = n, !.requests = dl.requests + 1,
                                 !.outcomes = Append(dl.outcomes, "HTTPError"),
                                 !.slept = Append(dl.slept, Backoff(n))]
    /\ UNCHANGED <<buildvars, vc, call, builder, ar, fetch, cln>>

\* n += 1; urlopen raises an error that is not an HTTPError (URLError: no
\* route, name not resolved): no except clause matches, it propagates.
DlAttemptURLError ==
    /\ dl.pc = "loop"
    /\ LoopGoesOn(dl.n)
    /\ dl' = [dl EXCEPT !.n = dl.n + 1, !.requests = dl.requests + 1,
                        !.outcomes = Append(dl.outcomes, "URLError"),
                        !.pc = "raised", !.ret = <<Raise("URLError")>>]
    /\ UNCHANGED <<buildvars, vc, call, builder, ar, fetch, cln>>

\* fin.read(10240) at position pos of body: the next block, b"" at the end.
ReadBlock(body, pos) == IF pos < Len(body) THEN <<body[pos + 1]>> ELSE <<>>

\* After the loop: fout = open(local, "wb"); block = fin.read(10240).
\* Both are outside the try: an error of this first read propagates with the
\* truncated file left in place.
DlOpen ==
    /\ dl.pc = "loop"
    /\ ~LoopGoesOn(dl.n)
    /\ \/ dl' = [dl EXCEPT !.pc = "copy", !.local = <<<<>>>>,
                           !.block = ReadBlock(dl.fin[1], 0), !.pos = 1]
       \/ dl' = [dl EXCEPT !.pc = "raised", !.local = <<<<>>>>,
                           !.ret = <<Raise("OSError")>>]
    /\ UNCHANGED <<buildvars, vc, call, builder, ar, fetch, cln>>

\* while block: fout.write(block); block = fin.read(10240)
\* An error inside the try: os.unlink(local), then re-raised; an OSError of
\* os.unlink itself (fout is still open) is passed over.
DlCopy ==
    /\ dl.pc = "copy"
    /\ dl.block # <<>>
    /\ \/ dl' = [dl EXCEPT !.local = <<dl.local[1] \o dl.block>>,
                           !.block = ReadBlock(dl.fin[1], dl.pos),
                           !.pos = dl.pos + 1]
       \/ dl' = [dl EXCEPT !.pc = "raised", !.local = None,
                           !.ret = <<Raise("OSError")>>]
       \/ dl' = [dl EXCEPT !.pc = "raised", !.ret = <<Raise("OSError")>>]
    /\ UNCHANGED <<buildvars, vc, call, builder, ar, fetch, cln>>

\* fin.close(); fout.close(); return local. __call__ goes on: valid = True.
DlCopyDone ==
    /\ dl.pc = "copy"
    /\ dl.block = <<>>
    /\ dl' = [dl EXCEPT !.pc = "validate_sig", !.valid = TRUE]
    /\ UNCHANGED <<buildvars, vc, call, builder, ar, fetch, cln>>

\* Download.validate_signature(archive, signature); gpg_ok is whether
\* "gpg --verify" ended with status 0 (runcmd raises MayflowerException
\* otherwise, which is caught).
ValidateSignature(signature, gpg_ok) ==
    IF signature = None THEN Return(FALSE)
    ELSE IF gpg_ok THEN Return(TRUE) ELSE Return(FALSE)

\* Download.validate_md5sum(archive, md5sum): True unless verify_checksum
\* raises MayflowerException (its return value is not looked at).
ValidateMd5sum(content, md5sum) ==
    LET r == VerifyChecksum(content, md5sum)
    IN  IF r.kind = "raise" /\ r.value = "MayflowerException"
        THEN Return(FALSE)
        ELSE IF r.kind = "raise" THEN r ELSE Return(TRUE)

\* if self.signature is not None: valid_sig = ...; valid = valid and valid_sig
DlValidateSig ==
    /\ dl.pc = "validate_sig"
    /\ IF dl.signature # None
       THEN \E gpg_ok \in BOOLEAN :
                LET r == ValidateSignature(dl.signature, gpg_ok)
                IN  dl' = [dl EXCEPT !.pc = "validate_md5",
                                     !.sig_ok = <<gpg_ok>>,
                                     !.valid = dl.valid /\ r.value]
       ELSE dl' = [dl EXCEPT !.pc = "validate_md5"]
    /\ UNCHANGED <<buildvars, vc, call, builder, ar, fetch, cln>>

\* Mutant: the md5 result replaces valid instead of being and-ed into it.
AndValid_replace(valid, check) == check

\* valid = valid and valid_md5
AndValid(valid, check) == valid /\ check

\* Mutant: a missing md5sum makes the result False.
WithoutMd5_false(valid) == FALSE

\* self.md5sum is None: the if is skipped and valid is left as it is.
WithoutMd5(valid) == valid

\* if self.md5sum is not None: valid_md5 = ...; valid = valid and valid_md5
\* log.debug(...); return valid
DlValidateMd5 ==
    /\ dl.pc = "validate_md5"
    /\ IF dl.md5sum # None
       THEN LET r == ValidateMd5sum(dl.local[1], dl.md5sum)
            IN  IF r.kind = "raise"
                THEN dl' = [dl EXCEPT !.pc = "raised", !.ret = <<r>>]
                ELSE dl' = [dl EXCEPT !.pc = "returned",
                                      !.valid = AndValid(dl.valid, r.value),
                                      !.ret = <<Return(AndValid(dl.valid, r.value))>>]
       ELSE dl' = [dl EXCEPT !.pc = "returned",
                             !.valid = WithoutMd5(dl.valid),
                             !.ret = <<Return(WithoutMd5(dl.valid))>>]
    /\ UNCHANGED <<buildvars, vc, call, builder, ar, fetch, cln>>

DownloadNext ==
    \/ DlCall
    \/ DlAttemptOk
    \/ DlAttemptHTTPError
    \/ DlAttemptURLError
    \/ DlOpen
    \/ DlCopy
    \/ DlCopyDone
    \/ DlValidateSig
    \/ DlValidateMd5

SpecDownload == InitDownload /\ [][DownloadNext]_vars

\* The retrieval succeeded: download_url returned the local path.
Retrieved == dl.pc \in {"validate_sig", "validate_md5", "returned"}

SignaturePassed == dl.signature # None => dl.sig_ok = <<TRUE>>
ChecksumPassed == dl.md5sum # None => dl.md5sum = <<HexDigest(Md5(dl.local[1]))>>

UnitExitCode(ret) == IF ret.kind = "raise" THEN 1 ELSE 0

C14_AtMostThreeAttempts ==
    /\ dl.requests <= 3
    /\ Len(dl.outcomes) = dl.requests
    /\ (dl.outcomes = <<"HTTPError", "HTTPError", "HTTPError">> =>
            /\ dl.pc = "raised"
            /\ dl.ret[1] = Raise("HTTPError")
            /\ UnitExitCode(dl.ret[1]) # 0)

C14_Witness ==
    /\ dl.requests = 3
    /\ dl.outcomes = <<"HTTPError", "HTTPError", "HTTPError">>
    /\ dl.slept = <<11, 12>>
    /\ dl.pc = "raised"

\* C23: a request after the first is made only when the request before it
\* failed; a download whose first request succeeded has made one request.
C23_RetryOnlyOnError ==
    /\ \A i \in 2..Len(dl.outcomes) : dl.outcomes[i - 1] # "ok"
    /\ (dl.pc \notin {"idle", "call", "loop"} /\ dl.outcomes[1] = "ok"
            => dl.requests = 1)

\* download_url ended with the error of a request.
FetchError ==
    dl.pc = "raised" /\ dl.ret[1].value \in {"HTTPError", "URLError"}

\* C24: when a request of the download succeeded the call does not end
\* with a fetch error, and the file then holds the content received unless
\* reading it failed; a fetch error ends the call only after 3 failed
\* requests.
C24_AnySuccessCompletes ==
    /\ ("ok" \in Range(dl.outcomes) => ~FetchError)
    /\ (FetchError =>
            /\ Len(dl.outcomes) = 3
            /\ \A i \in 1..3 : dl.outcomes[i] # "ok")

\* The failed requests that were followed by a sleep: all but one at n == 3.
SleptAfter == {i \in 1..Len(dl.outcomes) :
                  dl.outcomes[i] = "HTTPError" /\ i < 3}

\* C25: the delays slept are those of the failed requests before the 3rd,
\* each longer than the one before, and a failed 3rd request is followed by
\* no sleep.
C25_BackoffGrows ==
    /\ Len(dl.slept) = Cardinality(SleptAfter)
    /\ \A i \in 2..Len(dl.slept) : dl.slept[i] > dl.slept[i - 1]
    /\ (dl.outcomes = <<"HTTPError", "HTTPError">> =>
            dl.slept[2] > dl.slept[1])
    /\ (Len(dl.outcomes) = 3 /\ dl.outcomes[3] = "HTTPError" =>
            /\ dl.pc = "raised"
            /\ Len(dl.slept) <= 2)

C25_Witness ==
    /\ dl.outcomes = <<"HTTPError", "HTTPError", "HTTPError">>
    /\ Len(dl.slept) = 2
    /\ dl.slept[1] < dl.slept[2]
    /\ dl.pc = "raised"

\* C33: when download_url has ended with an error of the copy (after the
\* local file was opened), no file is left at the local path.
C33_NoPartialFile ==
    (dl.pc = "raised" /\ dl.ret[1] = Raise("OSError")) => dl.local = None

\* ------------------------------------------------------------------------
\* Builder.__call__: check_prereqs, clean, download_files, build
\* ------------------------------------------------------------------------
\* Bound: the longest wait_on list of the registries __call__ is run on
\* (what build() does with dependencies is checked under Spec).
MaxCallWaitOn == 0

CallRegistries ==
    {f \in [Names -> SeqsUpTo(Names, MaxCallWaitOn)] :
        \A n \in Names : f[n] \in SeqsUpTo(Names \ {n}, MaxCallWaitOn)}

\* The recipes that may carry a download.
DownloadNames == {"a", "b"}

\* How Download.__call__ ends: it returns valid, or an error of download_url
\* propagates.
DownloadOutcomes == {Return(TRUE), Return(FALSE), Raise("HTTPError")}

\* run_build: builder(..., cleanup=args.no_cleanup, ...)
RunBuildCleanup(no_cleanup) == no_cleanup

\* run_build(builder, args) calling __call__(steps, clean, cleanup,
\* download) on a Builder whose toolchain is None (darwin, win32) or a
\* directory that exists or not.
InitCall ==
    /\ recipies \in CallRegistries
    /\ registered = recipies
    /\ steps \in StepLists
    /\ spc = "call"
    /\ launched = 0
    /\ events = [n \in Names |-> FALSE]
    /\ processes = <<>>
    /\ pollq = <<>>
    /\ fails = <<>>
    /\ state = [n \in Names |-> "unstarted"]
    /\ exitcode = [n \in Names |-> None]
    /\ invoked = [n \in Names |-> FALSE]
    /\ result = [n \in Names |-> "none"]
    /\ setcount = [n \in Names |-> 0]
    /\ prefix \in BOOLEAN
    /\ cleaned = FALSE
    /\ exit_status = None
    /\ logs = NoLogs
    /\ vc = IdleVc
    /\ dl = IdleDl
    /\ builder = IdleBuilder
    /\ ar = IdleAr
    /\ fetch = IdleFetch
    /\ cln = IdleCln
    /\ \E c \in BOOLEAN, d \in BOOLEAN, tc \in {None, <<TRUE>>, <<FALSE>>},
          ds \in SUBSET DownloadNames, nc \in BOOLEAN :
           /\ cleanup = RunBuildCleanup(nc)
           /\ call = [IdleCall EXCEPT !.pc = "prereqs", !.clean = c,
                                      !.download = d, !.toolchain = tc,
                                      !.downloads = ds, !.no_cleanup = nc]

\* What the steps of __call__ before build() leave alone.
callframe == <<recipies, registered, steps, cleanup, launched, events,
               processes, pollq, fails, state, exitcode, invoked, result,
               setcount, cleaned, logs, vc, dl, builder, ar, fetch, cln>>

\* Mutant: the toolchain is not looked at.
CheckPrereqs_none(toolchain) == <<>>

\* check_prereqs: if self.toolchain and not self.toolchain.exists():
\* fail.append(...); return fail
CheckPrereqs(toolchain) ==
    IF toolchain # None /\ ~toolchain[1] THEN <<"toolchain">> ELSE <<>>

\* failures = self.check_prereqs(); if failures: ...; sys.exit(1)
CallCheckPrereqs ==
    /\ call.pc = "prereqs"
    /\ IF CheckPrereqs(call.toolchain) # <<>>
       THEN /\ call' = [call EXCEPT !.pc = "exited"]
            /\ spc' = "exited"
            /\ exit_status' = <<1>>
       ELSE /\ call' = [call EXCEPT !.pc = "clean"]
            /\ UNCHANGED <<spc, exit_status>>
    /\ UNCHANGED <<prefix, callframe>>

\* if clean: self.clean(): rmtree of the prefix (and of the sources), a
\* missing directory is passed over.
CallClean ==
    /\ call.pc = "clean"
    /\ IF call.clean
       THEN /\ prefix' = FALSE
            /\ call' = [call EXCEPT !.pc = "download", !.did_clean = TRUE]
       ELSE /\ call' = [call EXCEPT !.pc = "download"]
            /\ UNCHANGED prefix
    /\ UNCHANGED <<spc, exit_status, callframe>>

\* if download: self.download_files(steps); self.build(steps, cleanup)
CallDownload ==
    /\ call.pc = "download"
    /\ IF call.download
       THEN /\ call' = [call EXCEPT !.pc = "df_launch"]
            /\ UNCHANGED spc
       ELSE /\ call' = [call EXCEPT !.pc = "build"]
            /\ spc' = "launch"
    /\ UNCHANGED <<prefix, exit_status, callframe>>

\* download_files, one iteration of "for name in steps": a recipe without
\* download is passed over, else a Process is started on the Download.
DfLaunch ==
    /\ call.pc = "df_launch"
    /\ call.i < Len(steps)
    /\ LET name == steps[call.i + 1]
           pc == IF call.i + 1 = Len(steps) THEN "df_poll" ELSE "df_launch"
       IN  IF name \in call.downloads
           THEN call' = [call EXCEPT !.i = call.i + 1, !.pc = pc,
                            !.processes = Append(call.processes, name),
                            !.dstate = [call.dstate EXCEPT ![name] = "running"]]
           ELSE call' = [call EXCEPT !.i = call.i + 1, !.pc = pc]
    /\ UNCHANGED <<spc, prefix, exit_status, callframe>>

\* A download unit ends: Download.__call__ returned (the value is dropped)
\* or raised.
DfUnitExit(n) ==
    /\ call.dstate[n] = "running"
    /\ \E ret \in DownloadOutcomes :
           call' = [call EXCEPT
                       !.dstate = [call.dstate EXCEPT ![n] = "exited"],
                       !.outcome = [call.outcome EXCEPT ![n] = <<ret>>],
                       !.dexit = [call.dexit EXCEPT ![n] = <<UnitExitCode(ret)>>]]
    /\ UNCHANGED <<spc, prefix, exit_status, callframe>>

\* download_files, "while processes: for proc in list(processes.values())"
DfPollRound ==
    /\ call.pc = "df_poll"
    /\ call.pollq = <<>>
    /\ call.processes # <<>>
    /\ call' = [call EXCEPT !.pollq = call.processes]
    /\ UNCHANGED <<spc, prefix, exit_status, callframe>>

\* proc.join(0.3); if proc.exitcode is None: continue
DfPollAlive ==
    /\ call.pc = "df_poll"
    /\ call.pollq # <<>>
    /\ call.dexit[Head(call.pollq)] = None
    /\ call' = [call EXCEPT !.pollq = Tail(call.pollq)]
    /\ UNCHANGED <<spc, prefix, exit_status, callframe>>

\* processes.pop(proc.name); if proc.exitcode != 0: fails.append(proc.name)
DfPollExited ==
    /\ call.pc = "df_poll"
    /\ call.pollq # <<>>
    /\ call.dexit[Head(call.pollq)] # None
    /\ LET p == Head(call.pollq)
       IN  call' = [call EXCEPT
                       !.pollq = Tail(call.pollq),
                       !.processes = SelectSeq(call.processes,
                                               LAMBDA x : x # p),
                       !.fails = IF IsFailure(call.dexit[p][1])
                                 THEN Append(call.fails, p)
                                 ELSE call.fails]
    /\ UNCHANGED <<spc, prefix, exit_status, callframe>>

\* Mutant: the loop is left as soon as a failure is recorded.
DfLoopEnds_failfast(procs, fls) == procs = <<>> \/ fls # <<>>

\* "while processes" is false
DfLoopEnds(procs, fls) == procs = <<>>

\* Mutant: download_files returns whatever fails holds.
DfAborts_never(fls) == FALSE

\* if fails:
DfAborts(fls) == fls # <<>>

\* if fails: ...write each name...; sys.exit(1)
\* else download_files returns and __call__ goes on to self.build.
DfReport ==
    /\ call.pc = "df_poll"
    /\ call.pollq = <<>>
    /\ DfLoopEnds(call.processes, call.fails)
    /\ IF DfAborts(call.fails)
       THEN /\ call' = [call EXCEPT !.pc = "exited"]
            /\ spc' = "exited"
            /\ exit_status' = <<1>>
       ELSE /\ call' = [call EXCEPT !.pc = "build"]
            /\ spc' = "launch"
            /\ UNCHANGED exit_status
    /\ UNCHANGED <<prefix, callframe>>

CallNext ==
    \/ CallCheckPrereqs
    \/ CallClean
    \/ CallDownload
    \/ DfLaunch
    \/ \E n \in Names : DfUnitExit(n)
    \/ DfPollRound
    \/ DfPollAlive
    \/ DfPollExited
    \/ DfReport
    \/ BuildNext

SpecCall == InitCall /\ [][CallNext]_vars

\* The polling loop of download_files has popped the unit of n.
DfHandled(n) == call.dstate[n] = "exited" /\ n \notin Range(call.processes)

\* The download of n ended without a valid file: a configured check failed
\* or the retrieval raised.
CheckFailed(n) == call.outcome[n] = <<Return(FALSE)>>
DownloadFailed(n) ==
    call.outcome[n] # None /\ call.outcome[n] # <<Return(TRUE)>>

\* C12: a download whose content failed a configured check is, once
\* download_files has handled its unit, in the failure list of
\* download_files, and the run then exits non-zero without launching a
\* step.
C12_CheckFailureAborts ==
    \A n \in Names :
        (CheckFailed(n) /\ DfHandled(n)) =>
            /\ n \in Range(call.fails)
            /\ call.pc \in {"df_poll", "exited"}
            /\ (call.pc = "exited" => exit_status = <<1>>)
            /\ \A m \in Names : state[m] = "unstarted"

\* download_files has ended with sys.exit(1).
DfAborted == call.pc = "exited" /\ call.i > 0

\* C13: download_files exits only when every unit it launched has
\* terminated and been handled, and its failure list then holds exactly
\* the names of the units that ended with a non-zero status, each once.
C13_NotFailFast ==
    DfAborted =>
        /\ call.i = Len(steps)
        /\ \A n \in Requested \cap call.downloads : DfHandled(n)
        /\ \A n \in Names :
               n \in Range(call.fails) <=>
                   (call.dexit[n] # None /\ call.dexit[n] # <<0>>)
        /\ Cardinality(Range(call.fails)) = Len(call.fails)
        /\ call.fails # <<>>
        /\ exit_status = <<1>>

C13_Witness ==
    /\ DfAborted
    /\ Len(call.fails) = 2
    /\ \A n \in Range(call.fails) : call.outcome[n] = <<Raise("HTTPError")>>

\* The step n failed: its build function raised or returned a non-zero
\* result, or its unit was terminated.
StepFailed(n) ==
    result[n] \in {"raised", "returned_nonzero"} \/ Cancelled(n)

\* C15: when the run has ended, its exit status is 0 exactly when the
\* prerequisite check passed and no download and no step failed; and the
\* failure list of build() holds exactly the names of the steps whose
\* units ended failed or cancelled, each once.
C15_ExitStatus ==
    Finished =>
        /\ (exit_status = None <=>
               /\ CheckPrereqs(call.toolchain) = <<>>
               /\ \A n \in Names : ~DownloadFailed(n)
               /\ \A n \in Names : ~StepFailed(n))
        /\ \A n \in Names : n \in Range(fails) <=> Failed(n)
        /\ Cardinality(Range(fails)) = Len(fails)

\* C16: when the toolchain __call__ needs is absent, the run has exited
\* non-zero right after check_prereqs: clean() was not called, the prefix
\* is as it was, and no download unit and no step unit was started.
C16_PrereqFailureStopsRun ==
    (call.toolchain = <<FALSE>> /\ call.pc # "prereqs") =>
        /\ call.pc = "exited"
        /\ spc = "exited"
        /\ exit_status = <<1>>
        /\ ~call.did_clean
        /\ call.i = 0
        /\ call.processes = <<>>
        /\ processes = <<>>
        /\ launched = 0
        /\ \A n \in Names : /\ call.dstate[n] = "none"
                            /\ state[n] = "unstarted"
                            /\ ~invoked[n]

C16_Witness ==
    /\ call.toolchain = <<FALSE>>
    /\ call.pc = "exited"
    /\ call.clean
    /\ call.download
    /\ Requested \cap call.downloads # {}
    /\ prefix
    /\ exit_status = <<1>>

\* ------------------------------------------------------------------------
\* Builder.__init__, Builder.set_arch and Dirs
\* ------------------------------------------------------------------------
\* A path is the sequence of its components. The fields of builder:
\*   platform   sys.platform
\*   machine    platform.machine(): the architecture of the build machine
\*   datadir    mayflower.common.DATADIR
\*   arch, triplet, prefix, toolchains, toolchain   the Builder's attributes
\*   build      self.dirs.build
\*   calls      history: set_arch calls made after construction
\*   unit       None, or the Dirs the unit of a step made last in run():
\*              its name, arch and prefix, what self.prefix was then, and
\*              the keys of the env handed to build_func
Platforms == {"linux", "darwin", "win32"}
Arches == {"x86_64", "aarch64", "arm"}
Machines == {"x86_64", "aarch64"}

\* MODULE_DIR, and DATADIR: the default, or MAYFLOWER_DATA naming MODULE_DIR
ModuleDir == <<"site-packages", "mayflower">>
DataDirs == {<<"home", ".local", "mayflower">>, ModuleDir}

\* Bound: the set_arch calls made on one Builder.
MaxSetArch == 2

\* work_dir(name, root): root / "_name" under MODULE_DIR, else root / name
WorkDir(name, root) ==
    IF root = ModuleDir THEN Append(root, "_" \o name) ELSE Append(root, name)

\* Mutant: the toolchain directory is not specific to the arch.
GetToolchain_noarch(arch, datadir) == WorkDir("toolchain", datadir)

\* get_toolchain(arch, root): dirs.toolchain is work_dir("toolchain",
\* DATADIR) whatever root is; arch is None or <<name>>.
GetToolchain(arch, datadir) ==
    IF arch # None
    THEN Append(WorkDir("toolchain", datadir), arch[1] \o "-linux-gnu")
    ELSE WorkDir("toolchain", datadir)

\* "{}-macos" / "{}-win" / "{}-linux-gnu" .format(self.arch)
Triplet(platform, arch) ==
    CASE platform = "darwin" -> arch \o "-macos"
      [] platform = "win32" -> arch \o "-win"
      [] OTHER -> arch \o "-linux-gnu"

\* Dirs._triplet
DirsTriplet(platform, arch) ==
    CASE platform = "darwin" -> arch \o "-macos"
      [] platform = "win32" -> arch \o "-win"
      [] OTHER -> arch \o "-linux-gnu"

\* set_arch(arch) on the Builder b
SetArchOf(b, arch) ==
    [b EXCEPT !.arch = arch,
              !.triplet = Triplet(b.platform, arch),
              !.prefix = Append(b.build, Triplet(b.platform, arch)),
              !.toolchain = IF b.platform \in {"darwin", "win32"}
                            THEN None
                            ELSE <<GetToolchain(<<arch>>, b.datadir)>>]

\* Builder(arch=arch): the attributes __init__ assigns, then
\* self.set_arch(self.arch).
NewBuilder(platform, machine, datadir, arch) ==
    SetArchOf([pc |-> "built", platform |-> platform, machine |-> machine,
               datadir |-> datadir,
               arch |-> arch,
               triplet |-> Triplet(platform, arch),
               build |-> WorkDir("build", datadir),
               prefix |-> Append(WorkDir("build", datadir),
                                 Triplet(platform, arch)),
               toolchains |-> GetToolchain(None, datadir),
               toolchain |-> None,
               calls |-> 0,
               unit |-> None],
              arch)

InitArch ==
    /\ BuildIdle
    /\ ar = IdleAr
    /\ fetch = IdleFetch
    /\ cln = IdleCln
    /\ vc = IdleVc
    /\ dl = IdleDl
    /\ call = IdleCall
    /\ \E p \in Platforms, m \in Machines, d \in DataDirs, a \in Arches :
           builder = NewBuilder(p, m, d, a)

SetArch(arch) ==
    /\ builder.pc = "built"
    /\ builder.calls < MaxSetArch
    /\ builder' = [SetArchOf(builder, arch) EXCEPT !.calls = builder.calls + 1]
    /\ UNCHANGED <<buildvars, vc, dl, call, ar, fetch, cln>>

\* if self.arch != "x86_64": the build machine is not looked at
NeedsCross(arch, machine) == arch # "x86_64"

\* run(): env = {"PATH": ...} (os.environ on win32), MAYFLOWER_HOST,
\* MAYFLOWER_ARCH, and the cross pointers when self.arch != "x86_64"
RunEnv(arch, machine) ==
    {"PATH", "MAYFLOWER_HOST", "MAYFLOWER_ARCH"} \cup
        (IF NeedsCross(arch, machine)
         THEN {"MAYFLOWER_CROSS", "MAYFLOWER_NATIVE_PY"}
         ELSE {})

\* run(): dirs = Dirs(self.dirs, name, self.arch); dirs.prefix is
\* self.build / self._triplet; then the env is made.
RunDirs(name) ==
    /\ builder.pc = "built"
    /\ builder' = [builder EXCEPT !.unit =
                      <<[name |-> name, arch |-> builder.arch,
                         self_prefix |-> builder.prefix,
                         env |-> RunEnv(builder.arch, builder.machine),
                         prefix |-> Append(builder.build,
                                           DirsTriplet(builder.platform,
                                                       builder.arch))]>>]
    /\ UNCHANGED <<buildvars, vc, dl, call, ar, fetch, cln>>

ArchNext ==
    \/ \E arch \in Arches : SetArch(arch)
    \/ \E name \in Names : RunDirs(name)

SpecArch == InitArch /\ [][ArchNext]_vars

\* C18: on Linux, after construction and after every set_arch call, the
\* triplet is '<arch>-linux-gnu', the prefix is the build root / triplet,
\* the toolchain is the toolchain root / triplet, and the prefix of the Dirs
\* a step's unit makes is the Builder's prefix.
C18_LinuxLayout ==
    (builder.pc = "built" /\ builder.platform = "linux") =>
        /\ builder.triplet = builder.arch \o "-linux-gnu"
        /\ builder.prefix = Append(builder.build, builder.triplet)
        /\ builder.toolchain =
               <<Append(builder.toolchains, builder.triplet)>>
        /\ builder.build \in {<<"home", ".local", "mayflower", "build">>,
                              <<"site-packages", "mayflower", "_build">>}
        /\ builder.toolchains \in
               {<<"home", ".local", "mayflower", "toolchain">>,
                <<"site-packages", "mayflower", "_toolchain">>}
        /\ (builder.unit # None =>
                builder.unit[1].prefix = builder.unit[1].self_prefix)

C18_Witness ==
    /\ builder.pc = "built"
    /\ builder.platform = "linux"
    /\ builder.calls = 2
    /\ builder.arch = "aarch64"
    /\ builder.prefix = <<"home", ".local", "mayflower", "build",
                          "aarch64-linux-gnu">>
    /\ builder.toolchain = <<<<"home", ".local", "mayflower", "toolchain",
                               "aarch64-linux-gnu">>>>
    /\ builder.unit # None
    /\ builder.unit[1].name = "b"
    /\ builder.unit[1].arch = "aarch64"
    /\ builder.unit[1].prefix = builder.prefix

\* C21: when the steps of a run_build run have completed, the prefix was
\* deleted by build() exactly when args.no_cleanup is not set.
C21_NoCleanupSkips ==
    (Finished /\ call.pc = "build") =>
        /\ (call.no_cleanup => ~cleaned)
        /\ (~call.no_cleanup => cleaned)

\* A download unit has ended with a non-zero status.
SomeDownloadExitedNonZero ==
    \E n \in Names : call.dexit[n] # None /\ call.dexit[n] # <<0>>

\* C26: with download enabled, a step unit exists only when the launch
\* loop of download_files is over and every download unit has ended; once a
\* download unit has ended with a non-zero status no step unit is launched,
\* build() does not run its cleanup, and no later step of the run changes
\* the prefix.
C26_DownloadsBeforeSteps ==
    /\ []((call.download /\ \E n \in Names : state[n] # "unstarted") =>
              /\ call.pc = "build"
              /\ call.i = Len(steps)
              /\ \A n \in Requested \cap call.downloads :
                     call.dstate[n] = "exited")
    /\ [](SomeDownloadExitedNonZero =>
              /\ \A n \in Names : state[n] = "unstarted" /\ ~invoked[n]
              /\ launched = 0
              /\ ~cleaned
              /\ call.pc \in {"df_launch", "df_poll", "exited"})
    /\ [][SomeDownloadExitedNonZero => prefix' = prefix]_vars

C26_Witness ==
    /\ DfAborted
    /\ ~call.clean
    /\ prefix
    /\ \E n \in Names : call.outcome[n] = <<Return(TRUE)>>
    /\ \E n \in Names : call.outcome[n] = <<Raise("HTTPError")>>
    /\ \A n \in Names : state[n] = "unstarted"

\* C29: the env a unit hands to its build function holds MAYFLOWER_HOST
\* and MAYFLOWER_ARCH, and holds MAYFLOWER_CROSS and MAYFLOWER_NATIVE_PY
\* exactly when the target arch is not the arch of the build machine.
C29_CrossPointers ==
    (builder.pc = "built" /\ builder.unit # None) =>
        LET u == builder.unit[1]
        IN  /\ {"MAYFLOWER_HOST", "MAYFLOWER_ARCH"} \subseteq u.env
            /\ ("MAYFLOWER_CROSS" \in u.env <=> u.arch # builder.machine)
            /\ ("MAYFLOWER_NATIVE_PY" \in u.env <=> u.arch # builder.machine)

\* ------------------------------------------------------------------------
\* create_archive
\* ------------------------------------------------------------------------
\* A path or a pattern is the sequence of its characters. The fields of ar:
\*   pc      "idle", "call", "walk", "done", "raised"
\*   logfp   whether a log file was handed in (the default is None)
\*   files   the files under toarchive, by their path relative to it
\*   globs   the list of patterns
\*   todo    the files os.walk has still to yield
\*   added   the members of the archive, in the order of tarfp.add
\*   log     the lines written to logfp: <<kind, path>>
LibXSo == <<"l", "i", "b", "/", "x", ".", "s", "o">>
BinPython3 == <<"b", "i", "n", "/", "p", "y", "t", "h", "o", "n", "3">>
ShareDocTxt == <<"s", "h", "a", "r", "e", "/", "d", "o", "c", ".", "t", "x", "t">>
XSo == <<"x", ".", "s", "o">>
BinSo == <<"b", "i", "n", "/", "s", "o">>

\* The files under the prefix, in the order os.walk yields them.
FilePool == <<XSo, BinPython3, BinSo, LibXSo, ShareDocTxt>>

GlobSo == <<"*", ".", "s", "o">>
GlobBinPy == <<"/", "b", "i", "n", "/", "p", "y", "*">>
GlobAll == <<"*">>
GlobQSo == <<"/", "?", ".", "s", "o">>
GlobPool == {GlobSo, GlobBinPy, GlobAll, GlobQSo}

\* Bound: the longest list of patterns.
MaxGlobs == 2

\* fnmatch.fnmatch(name, pat) on POSIX: "*" matches any run of characters
\* ("/" included), "?" one character, any other character itself; the
\* whole name has to match. Bracket expressions are not among the patterns.
RECURSIVE Fnmatch(_, _)
Fnmatch(name, pat) ==
    IF pat = <<>> THEN name = <<>>
    ELSE IF Head(pat) = "*"
         THEN \/ Fnmatch(name, Tail(pat))
              \/ name # <<>> /\ Fnmatch(Tail(name), pat)
         ELSE /\ name # <<>>
              /\ (Head(pat) = "?" \/ Head(pat) = Head(name))
              /\ Fnmatch(Tail(name), Tail(pat))

\* "/" / relpath
Rooted(relpath) == <<"/">> \o relpath

\* Mutant: the last pattern of the list decides.
AnyMatch_last(relpath, globs) ==
    globs # <<>> /\ Fnmatch(Rooted(relpath), globs[Len(globs)])

\* matches = False; for g in globs: if fnmatch(...): matches = True; break
AnyMatch(relpath, globs) ==
    \E i \in 1..Len(globs) : Fnmatch(Rooted(relpath), globs[i])

\* create_archive(tarfp, toarchive, globs, logfp), called with the working
\* directory at toarchive as finalize does through run().
InitArchive ==
    /\ BuildIdle
    /\ fetch = IdleFetch
    /\ cln = IdleCln
    /\ vc = IdleVc
    /\ dl = IdleDl
    /\ call = IdleCall
    /\ builder = IdleBuilder
    /\ \E S \in SUBSET Range(FilePool), gs \in SeqsUpTo(GlobPool, MaxGlobs),
          lf \in BOOLEAN :
           ar = [pc |-> "call", logfp |-> lf, files |-> S, globs |-> gs,
                 todo |-> SelectSeq(FilePool, LAMBDA f : f \in S),
                 added |-> <<>>, log |-> <<>>]

\* logfp.write(f"CURRENT DIR {os.getcwd()}") is not guarded by "if logfp":
\* with logfp None it raises AttributeError. Then the line "Creating
\* archive".
ArStart ==
    /\ ar.pc = "call"
    /\ IF ar.logfp
       THEN ar' = [ar EXCEPT !.pc = IF ar.todo = <<>> THEN "done" ELSE "walk",
                             !.log = <<<<"CURRENT DIR", <<>>>>,
                                       <<"Creating archive", <<>>>>>>]
       ELSE ar' = [ar EXCEPT !.pc = "raised"]
    /\ UNCHANGED <<buildvars, vc, dl, call, builder, fetch, cln>>

\* One file of the walk: matched against the patterns, then logged and
\* added, or logged as skipped.
ArFile ==
    /\ ar.pc = "walk"
    /\ LET relpath == Head(ar.todo)
           pc == IF Tail(ar.todo) = <<>> THEN "done" ELSE "walk"
       IN  IF AnyMatch(relpath, ar.globs)
           THEN ar' = [ar EXCEPT !.pc = pc, !.todo = Tail(ar.todo),
                          !.log = Append(ar.log, <<"Adding", relpath>>),
                          !.added = Append(ar.added, relpath)]
           ELSE ar' = [ar EXCEPT !.pc = pc, !.todo = Tail(ar.todo),
                          !.log = Append(ar.log, <<"Skipping", relpath>>)]
    /\ UNCHANGED <<buildvars, vc, dl, call, builder, fetch, cln>>

ArchiveNext == ArStart \/ ArFile

SpecArchive == InitArchive /\ [][ArchiveNext]_vars

\* The log lines about the file f.
LinesOf(f) == {i \in 1..Len(ar.log) : ar.log[i][2] = f}

\* C22: when create_archive, handed a log file, has ended, the members of
\* the archive are exactly the files whose rooted relative path matches a
\* pattern of the list, each added once, and the log holds one line per
\* file, "Adding" for a member and "Skipping" for any other; with the
\* patterns *.so and /bin/py* over lib/x.so, bin/python3 and share/doc.txt
\* the first two are members and the third is skipped.
C22_ArchiveByGlobs ==
    (ar.pc = "done" /\ ar.logfp) =>
        /\ Range(ar.added) =
               {f \in ar.files :
                   \E g \in Range(ar.globs) : Fnmatch(<<"/">> \o f, g)}
        /\ Len(ar.added) = Cardinality(Range(ar.added))
        /\ Len(ar.log) = 2 + Cardinality(ar.files)
        /\ \A f \in ar.files :
               /\ Cardinality(LinesOf(f)) = 1
               /\ \A i \in LinesOf(f) :
                      ar.log[i][1] = IF f \in Range(ar.added)
                                     THEN "Adding" ELSE "Skipping"
        /\ ((ar.globs = <<GlobSo, GlobBinPy>>
                /\ ar.files = {LibXSo, BinPython3, ShareDocTxt}) =>
               /\ Range(ar.added) = {LibXSo, BinPython3}
               /\ ar.log[5] = <<"Skipping", ShareDocTxt>>)

C22_Witness ==
    /\ ar.pc = "done"
    /\ ar.logfp
    /\ ar.globs = <<GlobSo, GlobBinPy>>
    /\ ar.files = {LibXSo, BinPython3, ShareDocTxt}
    /\ ar.added = <<BinPython3, LibXSo>>
    /\ ar.log[3] = <<"Adding", BinPython3>>
    /\ ar.log[4] = <<"Adding", LibXSo>>
    /\ ar.log[5] = <<"Skipping", ShareDocTxt>>

\* ------------------------------------------------------------------------
\* Download.url, Download.filepath, Download.fetch_file -> download_url, and
\* the extraction of the archive in Builder.run
\* ------------------------------------------------------------------------
\* A URL is the sequence of its pieces, every "/" a piece of its own; a
\* template may hold the piece "{version}". A path is the sequence of its
\* components. fetch is
\*   url_tpl, version, destination   the Download's attributes
\*   fs         the files that exist, as pairs <<path, content>>
\*   before     history: the paths that existed at the start
\*   fetches    history: the fetch_file calls made
\*   written    history: None, or <<path, content>> of the last fetch_file
\*   extracted  history: None, or <<what run found at download.filepath>>
TplVersioned ==
    <<"https:", "/", "/", "host", "/", "dir", "/", "pkg-", "{version}",
      ".tar.xz">>
TplVersionDir ==
    <<"https:", "/", "/", "host", "/", "{version}", "/", "pkg.tar.xz">>
TplPlain == <<"https:", "/", "/", "host", "/", "pkg.tar.xz">>
UrlTemplates == {TplVersioned, TplVersionDir, TplPlain}
Versions == {"1.0", "2.0"}
Payloads == {"tar-1", "tar-2"}

\* Bound: the fetch_file calls made on one Download.
MaxFetches == 2

RECURSIVE Concat(_)
\* the string the pieces spell
Concat(pieces) ==
    IF pieces = <<>> THEN "" ELSE pieces[1] \o Concat(Tail(pieces))

\* self.url_tpl.format(version=self.version)
Url(url_tpl, version) ==
    [i \in 1..Len(url_tpl) |->
        IF url_tpl[i] = "{version}" THEN version ELSE url_tpl[i]]

RECURSIVE RSplit(_, _)
\* url.rsplit("/", 1): <<head, tail>> cut at the last "/", read from the
\* right; <<url>> alone when there is no "/"
RSplit(url, tail) ==
    IF url = <<>> THEN <<tail>>
    ELSE IF url[Len(url)] = "/"
         THEN <<SubSeq(url, 1, Len(url) - 1), tail>>
         ELSE RSplit(SubSeq(url, 1, Len(url) - 1),
                     <<url[Len(url)]>> \o tail)

\* Download.filepath: _, name = self.url.rsplit("/", 1);
\* pathlib.Path(self.destination) / name
Filepath(url_tpl, version, destination) ==
    Append(destination, Concat(RSplit(Url(url_tpl, version), <<>>)[2]))

\* p.rfind("/"): the highest index holding "/", 0 when there is none
RFind(p) ==
    LET at == {i \in 1..Len(p) : p[i] = "/"}
    IN  IF at = {} THEN 0 ELSE CHOOSE i \in at : \A j \in at : j <= i

\* Mutant: the name is cut after the first "/".
Basename_first(p) ==
    LET at == {i \in 1..Len(p) : p[i] = "/"}
    IN  IF at = {} THEN p
        ELSE SubSeq(p, (CHOOSE i \in at : \A j \in at : i <= j) + 1, Len(p))

\* os.path.basename(p): i = p.rfind("/") + 1; p[i:]
Basename(p) == SubSeq(p, RFind(p) + 1, Len(p))

\* download_url: local = os.path.join(dest, os.path.basename(url))
DownloadUrlLocal(url, dest) == Append(dest, Concat(Basename(url)))

\* open(local, "wb") and the copy: the file at path holds content, whatever
\* was there
WriteFile(fs, path, content) ==
    {e \in fs : e[1] # path} \cup {<<path, content>>}

\* what opening path for reading finds
ReadFile(fs, path) ==
    IF \E e \in fs : e[1] = path
    THEN (CHOOSE e \in fs : e[1] = path)[2]
    ELSE "FileNotFoundError"

\* Builder.add: Download(name, destination=self.downloads, **download); the
\* download directory holds nothing, a file of an earlier fetch of the same
\* URL, or another file.
InitFetch ==
    /\ BuildIdle
    /\ vc = IdleVc
    /\ dl = IdleDl
    /\ call = IdleCall
    /\ builder = IdleBuilder
    /\ ar = IdleAr
    /\ cln = IdleCln
    /\ \E tpl \in UrlTemplates, v \in Versions, d \in DataDirs,
          old \in SUBSET {"same", "other"} :
           LET dest == WorkDir("download", d)
               fs0 == {<<Filepath(tpl, v, dest), "tar-0">> : x \in
                                                    old \cap {"same"}}
                      \cup {<<Append(dest, "other.tar.xz"), "tar-9">> : x \in
                                                    old \cap {"other"}}
           IN  fetch = [pc |-> "made", url_tpl |-> tpl, version |-> v,
                        destination |-> dest, fs |-> fs0,
                        before |-> {e[1] : e \in fs0}, fetches |-> 0,
                        written |-> None, extracted |-> None]

\* Download.fetch_file: download_url(self.url, self.destination), a
\* transfer that goes through
FetchFile ==
    /\ fetch.pc = "made"
    /\ fetch.fetches < MaxFetches
    /\ \E content \in Payloads :
           LET local == DownloadUrlLocal(Url(fetch.url_tpl, fetch.version),
                                         fetch.destination)
           IN  fetch' = [fetch EXCEPT
                            !.fs = WriteFile(fetch.fs, local, content),
                            !.fetches = fetch.fetches + 1,
                            !.written = <<<<local, content>>>>,
                            !.extracted = None]
    /\ UNCHANGED <<buildvars, vc, dl, call, builder, ar, cln>>

\* run(): extract_archive(dirs.sources, str(download.filepath)), in a unit
\* started after download_files
ExtractArchive ==
    /\ fetch.pc = "made"
    /\ fetch.fetches > 0
    /\ fetch.extracted = None
    /\ fetch' = [fetch EXCEPT !.extracted =
                    <<ReadFile(fetch.fs, Filepath(fetch.url_tpl,
                                                  fetch.version,
                                                  fetch.destination))>>]
    /\ UNCHANGED <<buildvars, vc, dl, call, builder, ar, cln>>

FetchNext == FetchFile \/ ExtractArchive

SpecFetch == InitFetch /\ [][FetchNext]_vars

\* C31: filepath is the destination joined with the piece of the resolved
\* URL that follows its last "/"; it is the path the last fetch_file
\* wrote; what run then extracts is what that fetch wrote; and the fetches
\* made have added no path but that one.
C31_FilepathIsLocal ==
    LET url == Url(fetch.url_tpl, fetch.version)
        fp == Filepath(fetch.url_tpl, fetch.version, fetch.destination)
    IN  fetch.pc = "made" =>
            /\ \E i \in 1..Len(url) :
                   /\ url[i] = "/"
                   /\ \A j \in (i + 1)..Len(url) : url[j] # "/"
                   /\ fp = Append(fetch.destination,
                                  Concat(SubSeq(url, i + 1, Len(url))))
            /\ fetch.written # None =>
                   /\ fetch.written[1][1] = fp
                   /\ <<fp, fetch.written[1][2]>> \in fetch.fs
                   /\ {e[1] : e \in fetch.fs} = fetch.before \cup {fp}
                   /\ Cardinality(fetch.fs)
                          = Cardinality({e[1] : e \in fetch.fs})
            /\ fetch.extracted # None =>
                   fetch.extracted[1] = fetch.written[1][2]

\* A second fetch has replaced the content at the path of the first, and
\* run has extracted the second content.
C31_Witness ==
    /\ fetch.pc = "made"
    /\ fetch.url_tpl = TplVersionDir
    /\ fetch.fetches = 2
    /\ fetch.before = {Filepath(fetch.url_tpl, fetch.version,
                                fetch.destination)}
    /\ fetch.extracted = <<"tar-2">>

\* ------------------------------------------------------------------------
\* Builder.clean
\* ------------------------------------------------------------------------
\* The file system is the set of the paths that exist. cln is
\*   fs        the paths that exist now
\*   stderr    what clean wrote to sys.stderr
\*   history   one record per clean call made: the file system before and
\*             after it, how the two shutil.rmtree calls and the os.remove
\*             call went ("none", "FileNotFoundError", "PermissionError"),
\*             and whether the call raised
\* Bound: the clean calls made on one Builder.
MaxCleans == 2

\* path is root or lies below it
IsUnder(path, root) ==
    Len(path) >= Len(root) /\ SubSeq(path, 1, Len(root)) = root

\* self.sources = self.dirs.src; self.downloads = self.dirs.download;
\* dirs.logs
SourcesDir(b) == WorkDir("src", b.datadir)
DownloadsDir(b) == WorkDir("download", b.datadir)
LogsDir(b) == WorkDir("logs", b.datadir)

\* path.with_suffix(suffix): the last component has its own suffix replaced;
\* no triplet holds a ".", so there is none and the suffix is appended
WithSuffix(path, suffix) ==
    [path EXCEPT ![Len(path)] = path[Len(path)] \o suffix]

\* self.prefix.with_suffix(".tar.xz")
ArchivePath(b) == WithSuffix(b.prefix, ".tar.xz")

\* Mutant: only the directory entry goes, what lies below it stays.
Rmtree_top(fs, root) == fs \ {root}

\* shutil.rmtree(root) that goes through
Rmtree(fs, root) == {p \in fs : ~IsUnder(p, root)}

\* The ways shutil.rmtree(root) can end: FileNotFoundError when root does
\* not exist; else the tree is gone, or a PermissionError stops it with
\* root and some of what lies below it left.
RmtreeOutcomes(fs, root) ==
    IF root \notin fs
    THEN {[fs |-> fs, err |-> "FileNotFoundError"]}
    ELSE {[fs |-> Rmtree(fs, root), err |-> "none"]} \cup
         {[fs |-> fs \ gone, err |-> "PermissionError"] :
             gone \in SUBSET {p \in fs : IsUnder(p, root) /\ p # root}}

\* The ways os.remove(path) can end
RemoveOutcomes(fs, path) ==
    IF path \notin fs
    THEN {[fs |-> fs, err |-> "FileNotFoundError"]}
    ELSE {[fs |-> fs \ {path}, err |-> "none"],
          [fs |-> fs, err |-> "PermissionError"]}

\* sys.stderr.write(f"Unable to remove directory: {_}") in the handler of
\* PermissionError
CleanMessage(err, path) ==
    IF err = "PermissionError"
    THEN <<<<"Unable to remove directory", path>>>>
    ELSE <<>>

\* a directory in one of three conditions, with one entry below it
Tree(root, condition, entry) ==
    CASE condition = "absent" -> {}
      [] condition = "empty" -> {root}
      [] OTHER -> {root, Append(root, entry)}

\* A Builder as constructed, over working directories in any condition.
InitClean ==
    /\ BuildIdle
    /\ vc = IdleVc
    /\ dl = IdleDl
    /\ call = IdleCall
    /\ ar = IdleAr
    /\ fetch = IdleFetch
    /\ \E p \in Platforms, d \in DataDirs, a \in Arches :
           builder = NewBuilder(p, "x86_64", d, a)
    /\ \E pre \in {"absent", "empty", "full"},
          src \in {"absent", "empty", "full"},
          arc \in BOOLEAN,
          others \in SUBSET {"download", "logs", "toolchain"} :
           cln = [pc |-> "made",
                  fs |-> Tree(builder.prefix, pre, "bin")
                         \cup Tree(SourcesDir(builder), src, "pkg")
                         \cup (IF arc THEN {ArchivePath(builder)} ELSE {})
                         \cup (IF arc \/ pre # "absent"
                               THEN {builder.build} ELSE {})
                         \cup Tree(DownloadsDir(builder),
                                   IF "download" \in others
                                   THEN "full" ELSE "absent", "pkg.tar.xz")
                         \cup Tree(LogsDir(builder),
                                   IF "logs" \in others
                                   THEN "full" ELSE "absent", "a.log")
                         \cup Tree(builder.toolchains,
                                   IF "toolchain" \in others
                                   THEN "full" ELSE "absent",
                                   builder.triplet),
                  stderr |-> <<>>,
                  history |-> <<>>]

\* Builder.clean(): rmtree of self.prefix and of self.sources, each with
\* PermissionError reported and FileNotFoundError passed over; then
\* os.remove of the archive with FileNotFoundError passed over.
Clean ==
    /\ cln.pc = "made"
    /\ Len(cln.history) < MaxCleans
    /\ \E r1 \in RmtreeOutcomes(cln.fs, builder.prefix) :
       \E r2 \in RmtreeOutcomes(r1.fs, SourcesDir(builder)) :
       \E r3 \in RemoveOutcomes(r2.fs, ArchivePath(builder)) :
           cln' = [cln EXCEPT
                      !.fs = r3.fs,
                      !.stderr = cln.stderr
                                 \o CleanMessage(r1.err, builder.prefix)
                                 \o CleanMessage(r2.err, SourcesDir(builder)),
                      !.history = Append(cln.history,
                          [pre |-> cln.fs, post |-> r3.fs,
                           errs |-> <<r1.err, r2.err, r3.err>>,
                           raised |-> r3.err = "PermissionError"])]
    /\ UNCHANGED <<buildvars, vc, dl, call, builder, ar, fetch>>

SpecClean == InitClean /\ [][Clean]_vars

\* a call of clean in which no removal met a PermissionError
Unhindered(h) == \A i \in 1..3 : h.errs[i] # "PermissionError"

\* C34: after a clean call nothing is left at or below the prefix and the
\* source directory and the archive build/<triplet>.tar.xz is gone (each
\* unless its removal met a PermissionError); the call raises only for a
\* PermissionError on an archive that exists, never for anything absent;
\* nothing outside those three has changed, so the download, log and
\* toolchain directories are as before; and a second unhindered call
\* leaves what the first left.
C34_CleanRemoves ==
    cln.pc = "made" =>
        /\ ArchivePath(builder)
               = Append(builder.build, builder.triplet \o ".tar.xz")
        /\ \A k \in 1..Len(cln.history) :
               LET h == cln.history[k]
               IN  /\ h.errs[1] # "PermissionError" =>
                          \A p \in h.post : ~IsUnder(p, builder.prefix)
                   /\ h.errs[2] # "PermissionError" =>
                          \A p \in h.post : ~IsUnder(p, SourcesDir(builder))
                   /\ h.errs[3] # "PermissionError" =>
                          ArchivePath(builder) \notin h.post
                   /\ h.raised =>
                          /\ h.errs[3] = "PermissionError"
                          /\ ArchivePath(builder) \in h.pre
                   /\ h.post \subseteq h.pre
                   /\ \A p \in h.pre \ h.post :
                          \/ IsUnder(p, builder.prefix)
                          \/ IsUnder(p, SourcesDir(builder))
                          \/ p = ArchivePath(builder)
                   /\ \A p \in h.pre \cup h.post :
                          (\/ IsUnder(p, DownloadsDir(builder))
                           \/ IsUnder(p, LogsDir(builder))
                           \/ IsUnder(p, builder.toolchains))
                              => (p \in h.pre /\ p \in h.post)
        /\ (/\ Len(cln.history) >= 2
            /\ Unhindered(cln.history[1])
            /\ Unhindered(cln.history[2]))
               => /\ cln.history[2].post = cln.history[1].post
                  /\ cln.history[2].errs = <<"FileNotFoundError",
                                             "FileNotFoundError",
                                             "FileNotFoundError">>
                  /\ ~cln.history[2].raised

\* clean has been applied twice to a prefix and a source directory with
\* content, an archive, and download, log and toolchain directories with
\* content: the first call removed the three, the second found them absent.
C34_Witness ==
    /\ cln.pc = "made"
    /\ Len(cln.history) = 2
    /\ Unhindered(cln.history[1])
    /\ {Append(builder.prefix, "bin"), Append(SourcesDir(builder), "pkg"),
        ArchivePath(builder), Append(DownloadsDir(builder), "pkg.tar.xz"),
        Append(LogsDir(builder), "a.log"),
        Append(builder.toolchains, builder.triplet)}
           \subseteq cln.history[1].pre
    /\ cln.history[2].errs = <<"FileNotFoundError", "FileNotFoundError",
                               "FileNotFoundError">>
    /\ Append(DownloadsDir(builder), "pkg.tar.xz") \in cln.fs

====
